---- MODULE Spec2Model ----
(***************************************************************************)
(* Model of UnityCatalogProxyProfilingMixin                                *)
(* (metadata-ingestion/src/datahub/ingestion/source/unity/                  *)
(* proxy_profiling.py): get_table_stats, its ANALYZE submission, the        *)
(* exponential-backoff statement poller, the error handler with its one     *)
(* column-less retry, and the profile extractor.                            *)
(*                                                                         *)
(* The remote collaborators (statement_execution.execute_statement,         *)
(* statement_execution.get_statement, tables.get) are the environment:      *)
(* every answer they can give is a nondeterministic choice.                 *)
(***************************************************************************)
EXTENDS Integers, Sequences, FiniteSets, TLC

(***************************************************************************)
(* Bounds of the model.                                                    *)
(***************************************************************************)
\* tables the host profiles in one behaviour, one get_table_stats call each
MaxCalls == 2
\* max_wait_secs of a get_table_stats call ranges over 0..MaxWait
MaxWait == 2

\* max_wait_secs of a direct poller call ranges over 0..PollerMaxWait
PollerMaxWait == 8

(***************************************************************************)
(* Values.                                                                 *)
(***************************************************************************)
\* Optional[T]: None is the empty tuple, a present value v is <<v>>.
None == << >>
Some(v) == << v >>

\* databricks.sdk.service.sql.StatementState
StatementState == {"PENDING", "RUNNING", "SUCCEEDED", "FAILED", "CANCELED", "CLOSED"}

\* TableReference of the k-th table the host profiles.
TableRef(k) == [catalog |-> "main", schema |-> "s", table |-> "t" \o ToString(k)]

\* str(ref) / ref.qualified_table_name: the dotted name of the table.
StrRef(ref) == ref.catalog \o "." \o ref.schema \o "." \o ref.table

(***************************************************************************)
(* Error messages are sequences of characters.  The character "U" stands   *)
(* for the text [UNSUPPORTED_FEATURE.ANALYZE_UNSUPPORTED_COLUMN_TYPE],      *)
(* which holds neither a backtick nor a single quote.                       *)
(***************************************************************************)
UnsupportedToken == "U"
\* the backtick and the single-quote character, written by name
Backtick == "BACKTICK"
SingleQuote == "QUOTE"

\* Table <a.b.c> not found, the name between backticks
MsgTableA == << "T", Backtick, "a", Backtick, "n" >>
\* Table <d.e.f> not found, the name between backticks
MsgTableD == << "T", Backtick, "d", Backtick, "n" >>
\* Column <x> has type MAP which is unsupported [UNSUPPORTED_FEATURE...]
MsgUnsupported == << "C", Backtick, "x", Backtick, UnsupportedToken >>
\* a message that quotes a name between single quotes
MsgQuote == << "c", SingleQuote, "w", SingleQuote >>
\* a message with neither delimiter
MsgPlain == << "t" >>

\* every text of at most MaxMsgLen characters, delimiters included
MaxMsgLen == 3
MsgAlphabet == { "a", "b", Backtick, SingleQuote }
Messages == UNION { [1..n -> MsgAlphabet] : n \in 0..MaxMsgLen }

\* the messages the remote system answers with
ErrMessages == { MsgTableA, MsgTableD, MsgUnsupported }

\* str.find(ch): the 0-based index of the first occurrence, -1 when absent.
Find(msg, ch) ==
  IF \E i \in 1..Len(msg) : msg[i] = ch
  THEN (CHOOSE i \in 1..Len(msg) : msg[i] = ch /\ \A j \in 1..(i - 1) : msg[j] # ch) - 1
  ELSE -1

\* Python "a or b" on integers: a when a is non-zero, else b.
PyOr(a, b) == IF a # 0 THEN a ELSE b

\* mutant: the key ends at whichever delimiter comes first
BaseMsgIdxEarliest(msg) ==
  LET bt == Find(msg, Backtick)
      sq == Find(msg, SingleQuote)
  IN IF bt = -1 /\ sq = -1 THEN Len(msg)
     ELSE IF bt = -1 THEN sq + 1
     ELSE IF sq = -1 THEN bt + 1
     ELSE IF sq < bt THEN sq + 1 ELSE bt + 1

\* mutant: the whole message is the key
BaseMsgIdxWhole(msg) == Len(msg)

\* idx = (msg.find(backtick) + 1) or (msg.find(quote) + 1) or len(msg)
BaseMsgIdx(msg) == PyOr(Find(msg, Backtick) + 1, PyOr(Find(msg, SingleQuote) + 1, Len(msg)))

\* base_msg = msg[:idx]
BaseMsg(msg) == SubSeq(msg, 1, BaseMsgIdx(msg))

\* "[UNSUPPORTED_FEATURE.ANALYZE_UNSUPPORTED_COLUMN_TYPE]" in str(e)
HasUnsupportedToken(msg) == \E i \in 1..Len(msg) : msg[i] = UnsupportedToken

(***************************************************************************)
(* The profile extractor: _get_int, _create_column_profile,                *)
(* _create_table_profile.  Property values are sequences of characters.     *)
(***************************************************************************)
Digits == << "0", "1", "2", "3", "4", "5", "6", "7", "8", "9" >>
IsDigit(c) == \E i \in 1..10 : Digits[i] = c
DigitVal(c) == (CHOOSE i \in 1..10 : Digits[i] = c) - 1

RECURSIVE StripLeft(_)
StripLeft(s) == IF s # << >> /\ Head(s) = " " THEN StripLeft(Tail(s)) ELSE s
RECURSIVE StripRight(_)
StripRight(s) ==
  IF s # << >> /\ s[Len(s)] = " " THEN StripRight(SubSeq(s, 1, Len(s) - 1)) ELSE s

\* the digits of an int literal: digits, single underscores only between digits
IsDigitBody(s) ==
  /\ s # << >>
  /\ \A i \in 1..Len(s) :
       \/ IsDigit(s[i])
       \/ s[i] = "_" /\ i > 1 /\ i < Len(s) /\ IsDigit(s[i - 1]) /\ IsDigit(s[i + 1])

RECURSIVE DigitsValue(_, _)
DigitsValue(s, acc) ==
  IF s = << >> THEN acc
  ELSE IF Head(s) = "_" THEN DigitsValue(Tail(s), acc)
  ELSE DigitsValue(Tail(s), 10 * acc + DigitVal(Head(s)))

\* int(value): [ok |-> TRUE, val |-> n], or ok = FALSE for ValueError
PyInt(value) ==
  LET t == StripRight(StripLeft(value))
      signed == t # << >> /\ Head(t) \in {"+", "-"}
      body == IF signed THEN Tail(t) ELSE t
  IN IF IsDigitBody(body)
     THEN [ok |-> TRUE,
           val |-> IF signed /\ Head(t) = "-" THEN 0 - DigitsValue(body, 0)
                   ELSE DigitsValue(body, 0)]
     ELSE [ok |-> FALSE, val |-> 0]

\* table_info.properties.get(field)
PropertiesGet(table_info, field) ==
  IF field \in DOMAIN table_info.properties
  THEN Some(table_info.properties[field]) ELSE None

\* mutant: a missing key is counted as a failed cast
GetIntCountsMissing(table_info, field) ==
  LET value == PropertiesGet(table_info, field)
  IN IF value # None /\ PyInt(value[1]).ok
     THEN [value |-> Some(PyInt(value[1]).val), failed |-> 0]
     ELSE [value |-> None, failed |-> 1]

\* _get_int: the value returned and the increment of num_profile_failed_int_casts
GetInt(table_info, field) ==
  LET value == PropertiesGet(table_info, field)
  IN IF value # None
     THEN IF PyInt(value[1]).ok
          THEN [value |-> Some(PyInt(value[1]).val), failed |-> 0]
          ELSE [value |-> None, failed |-> 1]
     ELSE [value |-> None, failed |-> 0]

ColKey(column, stat) == "spark.sql.statistics.colStats." \o column \o "." \o stat

\* _create_column_profile
CreateColumnProfile(column, table_info) ==
  [name |-> column,
   null_count |-> GetInt(table_info, ColKey(column, "nullCount")).value,
   distinct_count |-> GetInt(table_info, ColKey(column, "distinctCount")).value,
   min |-> PropertiesGet(table_info, ColKey(column, "min")),
   max |-> PropertiesGet(table_info, ColKey(column, "max")),
   avg_len |-> PropertiesGet(table_info, ColKey(column, "avgLen")),
   max_len |-> PropertiesGet(table_info, ColKey(column, "maxLen")),
   version |-> PropertiesGet(table_info, ColKey(column, "version"))]

\* the _get_int failures counted while building one column profile
ColumnFailedCasts(column, table_info) ==
  GetInt(table_info, ColKey(column, "nullCount")).failed
    + GetInt(table_info, ColKey(column, "distinctCount")).failed

RECURSIVE SumFailedCasts(_, _)
SumFailedCasts(columns, table_info) ==
  IF columns = << >> THEN 0
  ELSE ColumnFailedCasts(Head(columns), table_info)
         + SumFailedCasts(Tail(columns), table_info)

\* mutant: the column profiles are built whatever include_columns says
CreateTableProfileAlwaysColumns(table_info, include_columns) ==
  LET columns_names == table_info.columns
  IN [num_rows |-> GetInt(table_info, "spark.sql.statistics.numRows").value,
      total_size |-> GetInt(table_info, "spark.sql.statistics.totalSize").value,
      num_columns |-> Len(columns_names),
      column_profiles |->
        [i \in 1..Len(columns_names) |->
           CreateColumnProfile(columns_names[i], table_info)]]

\* _create_table_profile: the TableProfile
CreateTableProfile(table_info, include_columns) ==
  LET columns_names == table_info.columns
  IN [num_rows |-> GetInt(table_info, "spark.sql.statistics.numRows").value,
      total_size |-> GetInt(table_info, "spark.sql.statistics.totalSize").value,
      num_columns |-> Len(columns_names),
      column_profiles |->
        IF include_columns
        THEN [i \in 1..Len(columns_names) |->
                CreateColumnProfile(columns_names[i], table_info)]
        ELSE << >>]

\* _create_table_profile: the number of times _get_int counted a failed cast
FailedIntCasts(table_info, include_columns) ==
  GetInt(table_info, "spark.sql.statistics.numRows").failed
    + GetInt(table_info, "spark.sql.statistics.totalSize").failed
    + (IF include_columns THEN SumFailedCasts(table_info.columns, table_info) ELSE 0)

\* The TableInfo values tables.get can answer with.
TableInfoFull ==
  [name |-> "c", columns |-> << "x", "y" >>,
   properties |->
     ("spark.sql.statistics.numRows" :> << "1", "0", "0" >>)
       @@ ("spark.sql.statistics.totalSize" :> << "5", "0", "0", "0" >>)
       @@ (ColKey("x", "nullCount") :> << "1" >>)
       @@ (ColKey("x", "distinctCount") :> << "7" >>)
       @@ (ColKey("x", "min") :> << "0" >>)
       @@ (ColKey("x", "max") :> << "9" >>)
       @@ (ColKey("y", "nullCount") :> << "n", "a", "n" >>)
       @@ (ColKey("y", "avgLen") :> << "3" >>)
       @@ (ColKey("y", "version") :> << "2" >>)]

TableInfoBad ==
  [name |-> "f", columns |-> << "x" >>,
   properties |->
     ("spark.sql.statistics.numRows" :> << "n", "o", "t" >>)
       @@ (ColKey("x", "distinctCount") :> << "1", ".", "5" >>)]

TableInfos == { TableInfoFull, TableInfoBad }

(***************************************************************************)
(* The TableInfo values the extractor is applied to on its own: tables of   *)
(* 0..MaxColumns columns whose numeric properties are each missing or hold  *)
(* one of a few texts.                                                      *)
(***************************************************************************)
MaxColumns == 2

\* what a numeric property of the table can hold
ExtractValues ==
  { << "1", "0", "0" >>, << " ", "7", " " >>, << "-", "5" >>, << "1", "_", "0" >>,
    << "n", "a", "n" >>, << "1", ".", "5" >>, << >>, << "1", "_" >> }

\* what a numeric property of a column can hold
ColValues == { << "7" >>, << "1", ".", "5" >> }

Optional(S) == { None } \cup { Some(v) : v \in S }

\* the (nullCount, distinctCount) pairs a column can hold
ColStats ==
  { << None, None >>,
    << Some(<< "1", ".", "5" >>), Some(<< "7" >>) >>,
    << Some(<< "7" >>), None >>,
    << Some(<< "7" >>), Some(<< "1", ".", "5" >>) >> }

ColumnName(i) == "c" \o ToString(i)

\* the TableInfo of n columns with the given properties; None is a missing key
MkTableInfo(n, rows, size, cv) ==
  LET rowsKey == "spark.sql.statistics.numRows"
      sizeKey == "spark.sql.statistics.totalSize"
      nullKey(i) == ColKey(ColumnName(i), "nullCount")
      distinctKey(i) == ColKey(ColumnName(i), "distinctCount")
      keys == (IF rows # None THEN { rowsKey } ELSE {})
                \cup (IF size # None THEN { sizeKey } ELSE {})
                \cup { nullKey(i) : i \in { j \in 1..n : cv[j][1] # None } }
                \cup { distinctKey(i) : i \in { j \in 1..n : cv[j][2] # None } }
      valueOf(k) ==
        IF k = rowsKey THEN rows[1]
        ELSE IF k = sizeKey THEN size[1]
        ELSE LET i == CHOOSE j \in 1..n : k \in { nullKey(j), distinctKey(j) }
             IN IF k = nullKey(i) THEN cv[i][1][1] ELSE cv[i][2][1]
  IN [name |-> "e",
      columns |-> [i \in 1..n |-> ColumnName(i)],
      properties |-> [k \in keys |-> valueOf(k)]]

ExtractInfos ==
  UNION { { MkTableInfo(n, rows, size, cv) :
              rows \in Optional(ExtractValues),
              size \in Optional(ColValues),
              cv \in [1..n -> ColStats] } :
          n \in 0..MaxColumns }

(***************************************************************************)
(* State.                                                                  *)
(***************************************************************************)
VARIABLES
  pc,                \* where the running call stands
  calls,             \* top-level get_table_stats calls made so far
  frames,            \* the arguments of each get_table_stats frame of the
                     \* current top-level call, outermost first
  execute_response,  \* poller parameter: state of the submission response
  max_wait_secs,     \* poller parameter
  status,            \* poller local: status.state
  backoff_sec,       \* poller local
  total_wait_time,   \* poller local
  success,           \* get_table_stats local: None until the poller returned
  exc,               \* the exception in flight
  retval,            \* what the top-level call returned
  report,            \* self.report
  report0,           \* history: the report when the top-level call began
  log,               \* history: the client calls, sleeps and catches of the
                     \* current top-level call, in order
  table_info,        \* _get_table_profile local: what tables.get returned
  workers            \* the calls running on the workers of a thread pool

vars ==
  << pc, calls, frames, execute_response, max_wait_secs, status, backoff_sec,
     total_wait_time, success, exc, retval, report, report0, log,
     table_info, workers >>

\* no table has been fetched
NoTableInfo == [name |-> "", columns |-> << >>, properties |-> << >>]

pollerVars == << execute_response, max_wait_secs, status, backoff_sec, total_wait_time >>

\* the poller is not running: its parameters and locals hold nothing
NoPoller ==
  /\ execute_response' = "PENDING"
  /\ max_wait_secs' = 0
  /\ status' = "PENDING"
  /\ backoff_sec' = 1
  /\ total_wait_time' = 0

\* One entry of the history.  The code treats PENDING and RUNNING alike, and
\* the history keeps them as one: "IN_PROGRESS".
Ev(op, arg, state, dur, msg, ctx) ==
  [op |-> op, frame |-> Len(frames), arg |-> arg,
   state |-> IF state \in {"PENDING", "RUNNING"} THEN "IN_PROGRESS" ELSE state,
   dur |-> dur, msg |-> msg, ctx |-> ctx]

NoExc == [cls |-> "none", msg |-> << >>, context |-> "none"]
\* DatabricksError(message, ..., context=key)
DatabricksError(msg, context) ==
  [cls |-> "DatabricksError", msg |-> msg, context |-> context]

\* the frame that is running
Frame == frames[Len(frames)]

EmptyReport ==
  [profile_table_timeouts |-> << >>,
   profile_table_errors |-> << >>,
   num_profile_failed_unsupported_column_type |-> 0,
   num_profile_failed_int_casts |-> 0]

(***************************************************************************)
(* Pieces of the code the actions use.                                     *)
(***************************************************************************)
\* mutant: the response of a statement is never checked for failure
RaiseIfErrorNever(state) == FALSE

\* mutant: only FAILED raises
RaiseIfErrorOnlyFailed(state) == state = "FAILED"

\* mutant: every state but SUCCEEDED raises
RaiseIfErrorNotSucceeded(state) == state # "SUCCEEDED"

\* _raise_if_error: the states that raise
RaiseIfError(state) == state \in {"FAILED", "CANCELED", "CLOSED"}

\* mutant: the loop does not look at the status
LoopCondNoStatus(total, maxw, state) == total < maxw

\* mutant: the loop gives up one second early
LoopCondEarly(total, maxw, state) == total + 1 < maxw /\ state # "SUCCEEDED"

\* while total_wait_time < max_wait_secs and status.state != SUCCEEDED
LoopCond(total, maxw, state) == total < maxw /\ state # "SUCCEEDED"

\* mutant: the sleep is not capped by what is left of the budget
SleepSecsUncapped(backoff, maxw, total) == backoff

\* time.sleep(min(backoff_sec, max_wait_secs - total_wait_time))
SleepSecs(backoff, maxw, total) ==
  IF backoff <= maxw - total THEN backoff ELSE maxw - total

\* mutant: the backoff grows by one second instead of doubling
NextBackoffLinear(backoff) == backoff + 1

\* backoff_sec *= 2
NextBackoff(backoff) == backoff * 2

\* mutant: the poller reports success for every state but FAILED
PollerResultNotFailed(state) == state # "FAILED"

\* mutant: the poller takes the end of its loop for a timeout
PollerResultTimedOut(state) == FALSE

\* return status.state == StatementState.SUCCEEDED
PollerResult(state) == state = "SUCCEEDED"

\* mutant: the handler misses the errors the poller raises
CatchesNotPoller(e) == e.cls = "DatabricksError" /\ e.context # "get-statement"

\* except DatabricksError as e
Catches(e) == e.cls = "DatabricksError"

\* mutant: every error is taken for an unsupported column type
ShouldRetryAlways(msg) == TRUE

\* _should_retry_unsupported_column: the value returned
ShouldRetryUnsupportedColumn(msg) == HasUnsupportedToken(msg)

\* mutant: the retry does not look at include_columns
RetryCondAnyColumns(call_analyze, include_columns, msg) ==
  call_analyze /\ ShouldRetryUnsupportedColumn(msg)

\* the condition of the retry, lines 98-102
RetryCond(call_analyze, include_columns, msg) ==
  call_analyze /\ include_columns /\ ShouldRetryUnsupportedColumn(msg)

\* mutant: the token is counted before the flags are looked at
CountsUnsupportedEager(call_analyze, include_columns, msg) ==
  HasUnsupportedToken(msg)

\* whether num_profile_failed_unsupported_column_type += 1 (line 119) runs:
\* the and of lines 98-102 calls _should_retry_unsupported_column only
\* when both flags are true, and the function counts when it sees the token
CountsUnsupported(call_analyze, include_columns, msg) ==
  call_analyze /\ include_columns /\ HasUnsupportedToken(msg)

\* profile_table_errors.setdefault(base_msg, LossyList()).append(item)
SetDefaultAppend(errors, key, item) ==
  [k \in (DOMAIN errors) \cup {key} |->
     IF k = key
     THEN Append(IF key \in DOMAIN errors THEN errors[key] ELSE << >>, item)
     ELSE errors[k]]

\* lines 87-92: the report after the error was recorded
RecordError(rep, ref, msg) ==
  [rep EXCEPT !.profile_table_errors =
     SetDefaultAppend(@, BaseMsg(msg), << StrRef(ref), msg >>)]

\* mutant: the timeout is not recorded
RecordTimeoutDropped(rep, ref) == rep

\* line 82: the report after the timeout was recorded
RecordTimeout(rep, ref) ==
  [rep EXCEPT !.profile_table_timeouts = Append(@, StrRef(ref))]

\* line 76: where a frame starts
Entry(call_analyze) == IF call_analyze THEN "analyze" ELSE "fetch"

\* the ANALYZE statement of line 126-128
Statement(ref, include_columns) ==
  "ANALYZE TABLE " \o ref.schema \o "." \o ref.table \o " COMPUTE STATISTICS"
    \o (IF include_columns THEN " FOR ALL COLUMNS" ELSE "")

(***************************************************************************)
(* Init: a fresh report, no call made yet.                                 *)
(***************************************************************************)
Init ==
  /\ pc = "idle"
  /\ calls = 0
  /\ frames = << >>
  /\ execute_response = "PENDING"
  /\ max_wait_secs = 0
  /\ status = "PENDING"
  /\ backoff_sec = 1
  /\ total_wait_time = 0
  /\ success = None
  /\ exc = NoExc
  /\ retval = None
  /\ report = EmptyReport
  /\ report0 = EmptyReport
  /\ log = << >>
  /\ table_info = NoTableInfo
  /\ workers = << >>

(***************************************************************************)
(* get_table_stats(ref, max_wait_secs, call_analyze, include_columns) is    *)
(* called by the host for its next table (lines 53-76).                     *)
(***************************************************************************)
Call ==
  /\ pc \in {"idle", "returned"}
  /\ calls < MaxCalls
  /\ \E maxw \in 0..MaxWait, ca \in BOOLEAN, ic \in BOOLEAN :
       /\ frames' = << [ref |-> TableRef(calls + 1), max_wait_secs |-> maxw,
                        call_analyze |-> ca, include_columns |-> ic] >>
       /\ pc' = Entry(ca)
  /\ calls' = calls + 1
  /\ success' = None
  /\ exc' = NoExc
  /\ retval' = None
  /\ report0' = report
  /\ log' = << >>
  /\ table_info' = NoTableInfo
  /\ UNCHANGED << pollerVars, report, workers >>

(***************************************************************************)
(* _analyze_table (lines 123-136) and, when it returns, the entry of the    *)
(* poller (lines 141-145).                                                  *)
(***************************************************************************)
AnalyzeTable ==
  /\ pc = "analyze"
  /\ LET stmt == Statement(Frame.ref, Frame.include_columns) IN
     \/ \* execute_statement itself raises a DatabricksError
        \E m \in ErrMessages :
          /\ exc' = DatabricksError(m, "client")
          /\ pc' = "raised"
          /\ log' = Append(log, Ev("execute_statement", stmt, "ERROR", 0, m, "client"))
          /\ UNCHANGED pollerVars
     \/ \* the response reports a terminal failure: _raise_if_error raises
        \E st \in StatementState, m \in ErrMessages :
          /\ RaiseIfError(st)
          /\ exc' = DatabricksError(m, "analyze-table")
          /\ pc' = "raised"
          /\ log' = Append(log, Ev("execute_statement", stmt, st, 0, m, "analyze-table"))
          /\ UNCHANGED pollerVars
     \/ \* the response is handed to the poller
        \E st \in StatementState :
          /\ ~RaiseIfError(st)
          /\ execute_response' = st
          /\ max_wait_secs' = Frame.max_wait_secs
          /\ status' = st
          /\ backoff_sec' = 1
          /\ total_wait_time' = 0
          /\ pc' = "poll"
          /\ log' = Append(log, Ev("execute_statement", stmt, st, 0, << >>, "none"))
          /\ UNCHANGED exc
  /\ UNCHANGED << calls, frames, success, retval, report, report0, table_info, workers >>

(***************************************************************************)
(* One iteration of the poller loop (lines 146-157).                        *)
(***************************************************************************)
PollIteration ==
  /\ pc = "poll"
  /\ LoopCond(total_wait_time, max_wait_secs, status)
  /\ total_wait_time' = total_wait_time + backoff_sec
  /\ backoff_sec' = NextBackoff(backoff_sec)
  /\ LET slept == Ev("sleep", "", "none",
                     SleepSecs(backoff_sec, max_wait_secs, total_wait_time),
                     << >>, "none") IN
     \/ \* get_statement itself raises a DatabricksError
        \E m \in ErrMessages :
          /\ exc' = DatabricksError(m, "client")
          /\ pc' = "raised"
          /\ log' = log \o << slept, Ev("get_statement", "", "ERROR", 0, m, "client") >>
          /\ UNCHANGED status
     \/ \* the response reports a terminal failure: _raise_if_error raises
        \E st \in StatementState, m \in ErrMessages :
          /\ RaiseIfError(st)
          /\ exc' = DatabricksError(m, "get-statement")
          /\ pc' = "raised"
          /\ log' = log \o << slept, Ev("get_statement", "", st, 0, m, "get-statement") >>
          /\ UNCHANGED status
     \/ \E st \in StatementState :
          /\ ~RaiseIfError(st)
          /\ status' = st
          /\ log' = log \o << slept, Ev("get_statement", "", st, 0, << >>, "none") >>
          /\ UNCHANGED << pc, exc >>
  /\ UNCHANGED << calls, frames, execute_response, max_wait_secs, success,
                  retval, report, report0, table_info, workers >>

(***************************************************************************)
(* The poller leaves its loop and returns (lines 146-148, 159).             *)
(***************************************************************************)
PollReturn ==
  /\ pc = "poll"
  /\ ~LoopCond(total_wait_time, max_wait_secs, status)
  /\ success' = Some(PollerResult(status))
  /\ pc' = "polled"
  /\ UNCHANGED << calls, frames, pollerVars, exc, retval, report, report0, log,
                  table_info, workers >>

(***************************************************************************)
(* get_table_stats after the poller returned (lines 81-84).                 *)
(***************************************************************************)
AfterPoll ==
  /\ pc = "polled"
  /\ IF success = Some(FALSE)
     THEN /\ report' = RecordTimeout(report, Frame.ref)
          /\ retval' = None
          /\ pc' = "returned"
     ELSE /\ pc' = "fetch"
          /\ UNCHANGED << report, retval >>
  /\ NoPoller
  /\ UNCHANGED << calls, frames, success, exc, report0, log, table_info, workers >>

(***************************************************************************)
(* _get_table_profile asks the catalog for the table (lines 161-164).       *)
(***************************************************************************)
GetTableProfile ==
  /\ pc = "fetch"
  /\ \/ \* tables.get raises a DatabricksError
        \E m \in ErrMessages :
          /\ exc' = DatabricksError(m, "client")
          /\ pc' = "raised"
          /\ log' = Append(log, Ev("tables_get", StrRef(Frame.ref), "ERROR", 0, m, "client"))
          /\ UNCHANGED table_info
     \/ \E info \in TableInfos :
          /\ table_info' = info
          /\ pc' = "extract"
          /\ log' = Append(log, Ev("tables_get", StrRef(Frame.ref), "none", 0, << >>, "none"))
          /\ UNCHANGED exc
  /\ UNCHANGED << calls, frames, pollerVars, success, retval, report, report0, workers >>

(***************************************************************************)
(* _create_table_profile with its _get_int calls (lines 165, 167-222) and   *)
(* the return of line 84.                                                   *)
(***************************************************************************)
CreateProfile ==
  /\ pc = "extract"
  /\ retval' = Some(CreateTableProfile(table_info, Frame.include_columns))
  /\ report' =
       [report EXCEPT !.num_profile_failed_int_casts =
          @ + FailedIntCasts(table_info, Frame.include_columns)]
  /\ pc' = "returned"
  /\ UNCHANGED << calls, frames, pollerVars, success, exc, report0, log,
                  table_info, workers >>

(***************************************************************************)
(* The handler of get_table_stats (lines 85-110): record the error, then    *)
(* either call get_table_stats again without columns or return None.  An    *)
(* exception the except clause does not name leaves the call.               *)
(***************************************************************************)
Except ==
  /\ pc = "raised"
  /\ IF ~Catches(exc)
     THEN /\ pc' = "propagated"
          /\ UNCHANGED << frames, success, exc, retval, report, log >>
     ELSE
       LET msg == exc.msg
           caught == Ev("catch", "", "none", 0, msg, exc.context)
           recorded == RecordError(report, Frame.ref, msg)
       IN /\ exc' = NoExc
          /\ log' = Append(log, caught)
          /\ report' =
               [recorded EXCEPT
                  !.num_profile_failed_unsupported_column_type =
                    @ + (IF CountsUnsupported(Frame.call_analyze,
                                              Frame.include_columns, msg)
                         THEN 1 ELSE 0)]
          /\ IF RetryCond(Frame.call_analyze, Frame.include_columns, msg)
             THEN /\ frames' = Append(frames, [Frame EXCEPT !.include_columns = FALSE])
                  /\ success' = None
                  /\ pc' = Entry(Frame.call_analyze)
                  /\ UNCHANGED retval
             ELSE /\ retval' = None
                  /\ pc' = "returned"
                  /\ UNCHANGED << frames, success >>
  /\ NoPoller
  /\ UNCHANGED << calls, report0, table_info, workers >>

Next ==
  \/ Call
  \/ AnalyzeTable
  \/ PollIteration
  \/ PollReturn
  \/ AfterPoll
  \/ GetTableProfile
  \/ CreateProfile
  \/ Except

Spec == Init /\ [][Next]_vars

(***************************************************************************)
(* The poller on its own: _check_analyze_table_statement_status called      *)
(* with any ExecuteStatementResponse and any max_wait_secs >= 0.  It ends   *)
(* at "polled" (returned, success holds the value) or "raised".             *)
(***************************************************************************)
InitPoller ==
  /\ pc = "poll"
  /\ calls = 0
  /\ frames = << >>
  /\ execute_response \in StatementState
  /\ status = execute_response
  /\ max_wait_secs \in 0..PollerMaxWait
  /\ backoff_sec = 1
  /\ total_wait_time = 0
  /\ success = None
  /\ exc = NoExc
  /\ retval = None
  /\ report = EmptyReport
  /\ report0 = EmptyReport
  /\ log = << >>
  /\ table_info = NoTableInfo
  /\ workers = << >>

NextPoller ==
  \/ PollIteration
  \/ PollReturn

SpecPoller == InitPoller /\ [][NextPoller]_vars

(***************************************************************************)
(* The extractor on its own: _create_table_profile applied to any           *)
(* TableInfo of ExtractInfos, with and without columns.                     *)
(***************************************************************************)
InitExtract ==
  /\ pc = "extract"
  /\ calls = 0
  /\ \E ic \in BOOLEAN :
       frames = << [ref |-> TableRef(1), max_wait_secs |-> 0,
                    call_analyze |-> FALSE, include_columns |-> ic] >>
  /\ execute_response = "PENDING"
  /\ max_wait_secs = 0
  /\ status = "PENDING"
  /\ backoff_sec = 1
  /\ total_wait_time = 0
  /\ success = None
  /\ exc = NoExc
  /\ retval = None
  /\ report = EmptyReport
  /\ report0 = EmptyReport
  /\ log = << >>
  /\ table_info \in ExtractInfos
  /\ workers = << >>

NextExtract == CreateProfile

SpecExtract == InitExtract /\ [][NextExtract]_vars

(***************************************************************************)
(* The handler on its own: a call without ANALYZE whose tables.get raised   *)
(* a DatabricksError with any message of Messages.                          *)
(***************************************************************************)
InitKey ==
  /\ pc = "raised"
  /\ calls = 1
  /\ \E ic \in BOOLEAN :
       frames = << [ref |-> TableRef(1), max_wait_secs |-> 0,
                    call_analyze |-> FALSE, include_columns |-> ic] >>
  /\ execute_response = "PENDING"
  /\ max_wait_secs = 0
  /\ status = "PENDING"
  /\ backoff_sec = 1
  /\ total_wait_time = 0
  /\ success = None
  /\ \E m \in Messages :
       /\ exc = DatabricksError(m, "client")
       /\ log = << Ev("tables_get", StrRef(TableRef(1)), "ERROR", 0, m, "client") >>
  /\ retval = None
  /\ report = EmptyReport
  /\ report0 = EmptyReport
  /\ table_info = NoTableInfo
  /\ workers = << >>

NextKey == Except

SpecKey == InitKey /\ [][NextKey]_vars

(***************************************************************************)
(* Several get_table_stats calls at once: the host runs one call per        *)
(* worker of a thread pool, worker w profiling TableRef(w), and all share   *)
(* self.report.  A worker step is one access to the report together with    *)
(* the code before it that touches the worker's own locals only: the try    *)
(* body up to its outcome is one step.  An augmented assignment to a report *)
(* counter reads the attribute, adds and writes it back, so another worker  *)
(* may run between the read and the write.  dict.setdefault and the append  *)
(* on the list it returns are each one step.                               *)
(***************************************************************************)
NumWorkers == 2

Workers == 1..NumWorkers

\* worker w before its call: pc, the arguments of its running frame, the
\* exception in flight, the failed casts _create_table_profile has yet to
\* count, the counter value read by +=, and as history the retries made,
\* the failed casts met and the messages recorded
IdleWorker ==
  [pc |-> "idle", call_analyze |-> FALSE, include_columns |-> FALSE,
   msg |-> << >>, casts_left |-> 0, loaded |-> 0,
   retries |-> 0, failures |-> 0, recorded |-> << >>]

\* every variable but the workers and the report they share
hostVars ==
  << pc, calls, frames, pollerVars, success, exc, retval, report0, log, table_info >>

\* the host submits get_table_stats for TableRef(w) to worker w
WCall(w) ==
  /\ workers[w].pc = "idle"
  /\ \E ca \in BOOLEAN, ic \in BOOLEAN :
       workers' = [workers EXCEPT ![w].pc = "try",
                                  ![w].call_analyze = ca,
                                  ![w].include_columns = ic]
  /\ UNCHANGED << hostVars, report >>

\* the try body of lines 75-84 up to its outcome: a DatabricksError from
\* the submission, the poller or tables.get, a timeout of the poller, or a
\* TableInfo handed to _create_table_profile
WTry(w) ==
  /\ workers[w].pc = "try"
  /\ \/ \E m \in ErrMessages :
          workers' = [workers EXCEPT ![w].pc = "except", ![w].msg = m]
     \/ /\ workers[w].call_analyze
        /\ workers' = [workers EXCEPT ![w].pc = "timeout"]
     \/ \E info \in TableInfos :
          workers' = [workers EXCEPT
                        ![w].pc = "extract",
                        ![w].casts_left =
                          FailedIntCasts(info, workers[w].include_columns)]
  /\ UNCHANGED << hostVars, report >>

\* line 82: profile_table_timeouts.append(str(ref)), and return None
WTimeout(w) ==
  /\ workers[w].pc = "timeout"
  /\ report' = RecordTimeout(report, TableRef(w))
  /\ workers' = [workers EXCEPT ![w].pc = "done"]
  /\ UNCHANGED hostVars

\* line 221, first half: read num_profile_failed_int_casts
WLoadIntCasts(w) ==
  /\ workers[w].pc = "extract"
  /\ workers[w].casts_left > 0
  /\ workers' = [workers EXCEPT ![w].pc = "store_int_casts",
                                ![w].loaded = report.num_profile_failed_int_casts]
  /\ UNCHANGED << hostVars, report >>

\* line 221, second half: write the value read plus one
WStoreIntCasts(w) ==
  /\ workers[w].pc = "store_int_casts"
  /\ report' = [report EXCEPT
                  !.num_profile_failed_int_casts = workers[w].loaded + 1]
  /\ workers' = [workers EXCEPT ![w].pc = "extract",
                                ![w].loaded = 0,
                                ![w].casts_left = @ - 1,
                                ![w].failures = @ + 1]
  /\ UNCHANGED hostVars

\* line 84: the profile is returned once every field has been read
WReturnProfile(w) ==
  /\ workers[w].pc = "extract"
  /\ workers[w].casts_left = 0
  /\ workers' = [workers EXCEPT ![w].pc = "done"]
  /\ UNCHANGED << hostVars, report >>

\* lines 87-90: profile_table_errors.setdefault(base_msg, LossyList())
WSetDefault(w) ==
  /\ workers[w].pc = "except"
  /\ LET key == BaseMsg(workers[w].msg)
         errors == report.profile_table_errors
     IN report' =
          [report EXCEPT !.profile_table_errors =
             [k \in (DOMAIN errors) \cup { key } |->
                IF k \in DOMAIN errors THEN errors[k] ELSE << >>]]
  /\ workers' = [workers EXCEPT ![w].pc = "append"]
  /\ UNCHANGED hostVars

\* lines 90-92: .append((str(ref), msg)) on the list setdefault returned,
\* then the condition of lines 98-102 and the return of line 110
WAppend(w) ==
  /\ workers[w].pc = "append"
  /\ report' =
       [report EXCEPT !.profile_table_errors[BaseMsg(workers[w].msg)] =
          Append(@, << StrRef(TableRef(w)), workers[w].msg >>)]
  /\ workers' =
       [workers EXCEPT
          ![w].recorded = Append(@, workers[w].msg),
          ![w].pc = IF CountsUnsupported(workers[w].call_analyze,
                                         workers[w].include_columns,
                                         workers[w].msg)
                    THEN "load_unsupported" ELSE "done"]
  /\ UNCHANGED hostVars

\* line 119, first half: read num_profile_failed_unsupported_column_type
WLoadUnsupported(w) ==
  /\ workers[w].pc = "load_unsupported"
  /\ workers' =
       [workers EXCEPT
          ![w].pc = "store_unsupported",
          ![w].loaded = report.num_profile_failed_unsupported_column_type]
  /\ UNCHANGED << hostVars, report >>

\* line 119, second half: write the value read plus one; then the retry of
\* lines 103-108 enters get_table_stats with include_columns=False
WStoreUnsupported(w) ==
  /\ workers[w].pc = "store_unsupported"
  /\ report' = [report EXCEPT
                  !.num_profile_failed_unsupported_column_type =
                    workers[w].loaded + 1]
  /\ workers' = [workers EXCEPT ![w].pc = "try",
                                ![w].loaded = 0,
                                ![w].msg = << >>,
                                ![w].include_columns = FALSE,
                                ![w].retries = @ + 1]
  /\ UNCHANGED hostVars

InitConc ==
  /\ pc = "idle"
  /\ calls = 0
  /\ frames = << >>
  /\ execute_response = "PENDING"
  /\ max_wait_secs = 0
  /\ status = "PENDING"
  /\ backoff_sec = 1
  /\ total_wait_time = 0
  /\ success = None
  /\ exc = NoExc
  /\ retval = None
  /\ report = EmptyReport
  /\ report0 = EmptyReport
  /\ log = << >>
  /\ table_info = NoTableInfo
  /\ workers = [w \in Workers |-> IdleWorker]

NextConc ==
  \E w \in Workers :
    \/ WCall(w)
    \/ WTry(w)
    \/ WTimeout(w)
    \/ WLoadIntCasts(w)
    \/ WStoreIntCasts(w)
    \/ WReturnProfile(w)
    \/ WSetDefault(w)
    \/ WAppend(w)
    \/ WLoadUnsupported(w)
    \/ WStoreUnsupported(w)

SpecConc == InitConc /\ [][NextConc]_vars

(***************************************************************************)
(* Vocabulary of the properties.                                           *)
(***************************************************************************)
\* positions of the history holding a given operation
At(op) == { i \in 1..Len(log) : log[i].op = op }
\* positions holding a status the code saw: the submission answer and every
\* status fetch that answered
Observed(f) ==
  { i \in 1..Len(log) :
      /\ log[i].frame = f
      /\ log[i].op \in {"execute_statement", "get_statement"}
      /\ log[i].state \in {"IN_PROGRESS"} \cup StatementState }
\* positions where the poller of frame f slept or fetched the status
Polling(f) ==
  { i \in 1..Len(log) : log[i].frame = f /\ log[i].op \in {"sleep", "get_statement"} }
SetMax(S) == CHOOSE x \in S : \A y \in S : y <= x
TerminalFailure == {"FAILED", "CANCELED", "CLOSED"}

\* C1: a TableProfile is returned only if call_analyze is false or the ANALYZE
\* statement submitted by the attempt that produced the profile was last seen
\* in state SUCCEEDED; every other outcome returns None.
C1_ProfileOnlyAfterSucceeded ==
  (pc = "returned" /\ retval # None) =>
    /\ log # << >>
    /\ log[Len(log)].op = "tables_get"
    /\ log[Len(log)].frame = Len(frames)
    /\ \/ ~frames[1].call_analyze
       \/ LET seen == Observed(Len(frames)) IN
            /\ \E i \in seen : log[i].op = "execute_statement"
            /\ log[SetMax(seen)].state = "SUCCEEDED"

\* C1 witness: a profile returned after ANALYZE was polled from PENDING or
\* RUNNING to SUCCEEDED.
C1_Witness ==
  /\ pc = "returned"
  /\ retval # None
  /\ frames[1].call_analyze
  /\ \E i \in At("execute_statement") : log[i].state = "IN_PROGRESS"
  /\ \E i \in At("get_statement") : log[i].state = "SUCCEEDED"

C3_RetryExactlyOnce ==
  /\ Len(frames) <= 2
  /\ Cardinality(At("execute_statement")) <= 2
  /\ \A f \in 1..Len(frames) :
       Cardinality({ i \in At("execute_statement") : log[i].frame = f }) <= 1
  /\ Len(frames) = 2 =>
       /\ frames[1].call_analyze /\ frames[1].include_columns
       /\ frames[2] = [frames[1] EXCEPT !.include_columns = FALSE]
  /\ \A i \in At("catch") :
       /\ ( /\ log[i].frame = 1
            /\ frames[1].call_analyze
            /\ frames[1].include_columns
            /\ HasUnsupportedToken(log[i].msg) ) => Len(frames) = 2
       /\ log[i].frame = 2 =>
            i = Len(log) /\ pc = "returned" /\ retval = None

\* C3 witness: the second attempt failed with the same unsupported-column-type
\* error and the call returned None after two submissions.
C3_Witness ==
  /\ pc = "returned"
  /\ Len(frames) = 2
  /\ Cardinality(At("execute_statement")) = 2
  /\ \E i, j \in At("catch") :
       /\ log[i].frame = 1 /\ log[j].frame = 2
       /\ HasUnsupportedToken(log[i].msg) /\ HasUnsupportedToken(log[j].msg)

\* C4: when the poller of an attempt returns false, get_table_stats appends
\* str(ref) to profile_table_timeouts exactly once, returns None, raises
\* nothing and fetches no table metadata in that attempt; no other outcome
\* touches profile_table_timeouts.
C4_TimeoutRecorded ==
  IF pc = "returned" /\ success = Some(FALSE)
  THEN /\ report.profile_table_timeouts =
            Append(report0.profile_table_timeouts, StrRef(frames[1].ref))
       /\ retval = None
       /\ exc = NoExc
       /\ \A i \in 1..Len(log) :
            log[i].frame = Len(frames) => log[i].op \notin {"tables_get", "catch"}
       /\ log[Len(log)].frame = Len(frames)
  ELSE report.profile_table_timeouts = report0.profile_table_timeouts

\* C4 witness: a call whose single attempt polled twice, used up its budget
\* with the statement still in progress, and returned.
C4_Witness ==
  /\ pc = "returned"
  /\ success = Some(FALSE)
  /\ Len(frames) = 1
  /\ Cardinality(At("get_statement")) = 2
  /\ log[Len(log)].state = "IN_PROGRESS"
  /\ Len(report.profile_table_timeouts) = 2

\* C5: a caught error with call_analyze false, or include_columns false, or
\* no unsupported-column-type token in its message ends the call: None is
\* returned and nothing is submitted, polled or fetched after the catch.
C5_NoOtherRetry ==
  \A i \in At("catch") :
    LET f == frames[log[i].frame] IN
      ( \/ ~f.call_analyze
        \/ ~f.include_columns
        \/ ~HasUnsupportedToken(log[i].msg) ) =>
        /\ i = Len(log)
        /\ log[i].frame = Len(frames)
        /\ pc = "returned"
        /\ retval = None

\* C5 witness: an error carrying the token was caught with include_columns
\* false on the first attempt, and the call returned without a retry.
C5_Witness ==
  /\ pc = "returned"
  /\ Len(frames) = 1
  /\ frames[1].call_analyze /\ ~frames[1].include_columns
  /\ log[Len(log)].op = "catch"
  /\ HasUnsupportedToken(log[Len(log)].msg)
  /\ Cardinality(At("execute_statement")) = 1

\* the number of (ref, message) samples a profile_table_errors dict holds
RECURSIVE Samples(_, _)
Samples(errors, keys) ==
  IF keys = {} THEN 0
  ELSE LET k == CHOOSE k \in keys : TRUE
       IN Len(errors[k]) + Samples(errors, keys \ {k})
\* key is the text of msg up to and including its first backtick
UpToFirstBacktick(key, msg) ==
  /\ Len(key) >= 1 /\ Len(key) <= Len(msg)
  /\ \A j \in 1..Len(key) : key[j] = msg[j]
  /\ key[Len(key)] = Backtick
  /\ \A j \in 1..(Len(key) - 1) : key[j] # Backtick
\* positions of the history where a client call ended in a remote error
Failures ==
  { i \in 1..Len(log) :
      log[i].op \in {"execute_statement", "get_statement", "tables_get"}
        /\ log[i].ctx # "none" }

\* C6: every remote error raised during an attempt is caught once and recorded
\* in profile_table_errors as the pair (ref, full message); a message with a
\* backtick is filed under its text up to the first backtick, so messages that
\* share that prefix share a key, and every sample is retained.
C6_ErrorsGrouped ==
  LET errors == report.profile_table_errors
      before == report0.profile_table_errors
  IN /\ Cardinality(At("catch")) + (IF pc = "raised" THEN 1 ELSE 0)
          = Cardinality(Failures)
     /\ \A i \in Failures :
          i < Len(log) =>
            /\ log[i + 1].op = "catch"
            /\ log[i + 1].msg = log[i].msg
            /\ log[i + 1].frame = log[i].frame
     /\ Samples(errors, DOMAIN errors)
          = Samples(before, DOMAIN before) + Cardinality(At("catch"))
     /\ \A i \in At("catch") :
          \E k \in DOMAIN errors : \E j \in 1..Len(errors[k]) :
            errors[k][j] = << StrRef(frames[1].ref), log[i].msg >>
     /\ \A k \in DOMAIN before :
          /\ k \in DOMAIN errors
          /\ Len(before[k]) <= Len(errors[k])
          /\ \A j \in 1..Len(before[k]) : errors[k][j] = before[k][j]
     /\ \A k \in DOMAIN errors : \A j \in 1..Len(errors[k]) :
          (\E p \in 1..Len(errors[k][j][2]) : errors[k][j][2][p] = Backtick)
            => UpToFirstBacktick(k, errors[k][j][2])

\* C6 witness: the two table-not-found messages, caught in two calls, are both
\* kept under the one key made of the text up to the first backtick.
C6_Witness ==
  LET errors == report.profile_table_errors
      key == << "T", Backtick >>
  IN /\ pc = "returned"
     /\ DOMAIN errors = { key }
     /\ Len(errors[key]) = 2
     /\ errors[key][1][2] = MsgTableA
     /\ errors[key][2][2] = MsgTableD
     /\ errors[key][1][1] # errors[key][2][1]

C8_FailedPollRaises ==
  \A i \in At("get_statement") :
    log[i].state \in TerminalFailure =>
      /\ IF i = Len(log)
         THEN /\ pc = "raised"
              /\ exc = DatabricksError(log[i].msg, "get-statement")
         ELSE /\ log[i + 1].op = "catch"
              /\ log[i + 1].ctx = "get-statement"
              /\ log[i + 1].msg = log[i].msg
              /\ log[i + 1].frame = log[i].frame
              /\ \E k \in DOMAIN report.profile_table_errors :
                   \E j \in 1..Len(report.profile_table_errors[k]) :
                     report.profile_table_errors[k][j]
                       = << StrRef(frames[1].ref), log[i].msg >>
      /\ \A j \in Polling(log[i].frame) : j <= i
      /\ log[i].frame = Len(frames) =>
           report.profile_table_timeouts = report0.profile_table_timeouts

\* C8 witness: with max_wait_secs = 2 the first poll, one second in, answered
\* FAILED; the call recorded the error and returned.
C8_Witness ==
  /\ pc = "returned"
  /\ Len(frames) = 1
  /\ frames[1].max_wait_secs = 2
  /\ At("sleep") = {2}
  /\ log[2].dur = 1
  /\ log[3].op = "get_statement" /\ log[3].state = "FAILED"
  /\ DOMAIN report.profile_table_errors # {}

\* the statement of the running frame was submitted, answered PENDING or
\* RUNNING, and every status fetch since answered PENDING or RUNNING
StaysInProgress ==
  LET f == Len(frames) IN
    /\ \E i \in At("execute_statement") :
         log[i].frame = f /\ log[i].state = "IN_PROGRESS"
    /\ \A i \in At("get_statement") :
         log[i].frame = f => log[i].state = "IN_PROGRESS"

\* C9 as stated: a poller run in which no status seen is SUCCEEDED (and no
\* client call fails) ends with result false and no error.
C9_NeverSucceededReturnsFalse ==
  LET f == Len(frames)
      ended == pc = "polled" \/ (pc = "raised" /\ log[Len(log)].op = "get_statement")
  IN ( /\ ended
       /\ \A i \in 1..Len(log) :
            (log[i].frame = f /\ log[i].op \in {"execute_statement", "get_statement"})
              => log[i].state \notin {"SUCCEEDED", "ERROR"} )
     => (pc = "polled" /\ success = Some(FALSE) /\ exc = NoExc)

\* C9, amended: a poller run in which every status seen is PENDING or RUNNING
\* raises nothing and returns false, after at most max_wait_secs status
\* fetches.
C9_InProgressReturnsFalse ==
  StaysInProgress =>
    /\ pc \in {"poll", "polled", "returned"}
    /\ exc = NoExc
    /\ pc # "poll" => success = Some(FALSE)
    /\ Cardinality({ i \in At("get_statement") : log[i].frame = Len(frames) })
         <= Frame.max_wait_secs

\* C9 witness: the poller returned false after two fetches that both answered
\* PENDING or RUNNING.
C9_Witness ==
  /\ StaysInProgress
  /\ pc = "polled"
  /\ success = Some(FALSE)
  /\ Cardinality(At("get_statement")) = 2

\* C10: when the submission answers SUCCEEDED the poller returns true without
\* sleeping and without fetching the statement status, whatever max_wait_secs.
C10_SucceededAtOnce ==
  \A i \in At("execute_statement") :
    log[i].state = "SUCCEEDED" =>
      /\ Polling(log[i].frame) = {}
      /\ IF i = Len(log)
         THEN /\ pc \in {"poll", "polled", "fetch"}
              /\ pc = "poll" => success = None
              /\ pc # "poll" => success = Some(TRUE)
         ELSE log[i + 1].op = "tables_get"

\* C10 witness: the poller returned true for an initial SUCCEEDED with the
\* whole budget of max_wait_secs = 2 unused.
C10_Witness ==
  /\ pc = "polled"
  /\ execute_response = "SUCCEEDED"
  /\ max_wait_secs = 2
  /\ total_wait_time = 0
  /\ success = Some(TRUE)
  /\ Polling(Len(frames)) = {}

\* C11: the poller always ends by inspecting a status: what it returns tells
\* whether the status it last held was SUCCEEDED.  With max_wait_secs = 0 it
\* neither sleeps nor fetches, returns true for an initial SUCCEEDED and
\* false for an initial PENDING or RUNNING.
C11_ZeroWaitInspectsStatus ==
  /\ pc = "polled" =>
       /\ success \in { Some(TRUE), Some(FALSE) }
       /\ success = Some(TRUE) <=> status = "SUCCEEDED"
  /\ max_wait_secs = 0 =>
       /\ pc \in {"poll", "polled"}
       /\ log = << >>
       /\ status = execute_response
       /\ pc = "polled" =>
            /\ execute_response = "SUCCEEDED" => success = Some(TRUE)
            /\ execute_response \in {"PENDING", "RUNNING"} => success = Some(FALSE)

\* C11 witness: called with max_wait_secs = 0 and a RUNNING statement, the
\* poller returned false without a sleep or a fetch.
C11_Witness ==
  /\ pc = "polled"
  /\ max_wait_secs = 0
  /\ execute_response = "RUNNING"
  /\ success = Some(FALSE)
  /\ log = << >>

\* what int() makes of each text of ExtractValues: None where it raises
\* ValueError
C12_IntOf ==
  (<< "1", "0", "0" >> :> Some(100)) @@ (<< " ", "7", " " >> :> Some(7))
    @@ (<< "-", "5" >> :> Some(0 - 5)) @@ (<< "1", "_", "0" >> :> Some(10))
    @@ (<< "7" >> :> Some(7)) @@ (<< "n", "a", "n" >> :> None)
    @@ (<< "1", ".", "5" >> :> None) @@ (<< >> :> None)
    @@ (<< "1", "_" >> :> None)
\* the numeric keys the extractor reads for the table just profiled
C12_NumericKeys ==
  { "spark.sql.statistics.numRows", "spark.sql.statistics.totalSize" }
    \cup (IF Frame.include_columns
          THEN { ColKey(table_info.columns[i], stat) :
                   i \in DOMAIN table_info.columns,
                   stat \in {"nullCount", "distinctCount"} }
          ELSE {})
C12_Present(key) == key \in DOMAIN table_info.properties
\* the field a numeric key must yield
C12_Field(key) ==
  IF C12_Present(key) THEN C12_IntOf[table_info.properties[key]] ELSE None

\* C12: a numeric key whose text int() rejects leaves its field absent and
\* adds exactly one to num_profile_failed_int_casts, a missing key leaves its
\* field absent and adds nothing, a parseable text yields its number, and the
\* extractor returns a profile without raising.
C12_FailedCastsCounted ==
  pc = "returned" =>
    /\ exc = NoExc
    /\ retval # None
    /\ retval[1].num_rows = C12_Field("spark.sql.statistics.numRows")
    /\ retval[1].total_size = C12_Field("spark.sql.statistics.totalSize")
    /\ \A i \in DOMAIN retval[1].column_profiles :
         LET p == retval[1].column_profiles[i] IN
           /\ p.null_count = C12_Field(ColKey(p.name, "nullCount"))
           /\ p.distinct_count = C12_Field(ColKey(p.name, "distinctCount"))
    /\ report.num_profile_failed_int_casts - report0.num_profile_failed_int_casts
         = Cardinality({ key \in C12_NumericKeys :
                           C12_Present(key) /\ C12_Field(key) = None })

\* C12 witness: numRows holds a text that is no integer, totalSize is
\* missing, a column has an unparseable nullCount: two failed casts counted,
\* the three fields absent.
C12_Witness ==
  /\ pc = "returned"
  /\ retval # None
  /\ Frame.include_columns
  /\ Len(table_info.columns) = 1
  /\ table_info.properties =
       ("spark.sql.statistics.numRows" :> << "n", "a", "n" >>)
         @@ (ColKey("c1", "nullCount") :> << "1", ".", "5" >>)
         @@ (ColKey("c1", "distinctCount") :> << "7" >>)
  /\ retval[1].num_rows = None
  /\ retval[1].total_size = None
  /\ retval[1].column_profiles[1].null_count = None
  /\ retval[1].column_profiles[1].distinct_count = Some(7)
  /\ report.num_profile_failed_int_casts = 2

\* the text the fetched table holds for a statistic of a column, if any
C13_Own(column, stat) ==
  IF ColKey(column, stat) \in DOMAIN table_info.properties
  THEN Some(table_info.properties[ColKey(column, stat)]) ELSE None

\* C13: a returned profile has num_columns equal to the number of columns the
\* table declares, in both modes.  With include_columns it holds one
\* ColumnProfile per declared column, in declaration order, each filled from
\* the keys of its own column; without, and so after the retry without
\* columns, it holds no column profile.
C13_ColumnProfiles ==
  (pc = "returned" /\ retval # None) =>
    LET profile == retval[1]
        columns == table_info.columns
    IN /\ profile.num_columns = Len(columns)
       /\ Frame.include_columns =>
            /\ Len(profile.column_profiles) = Len(columns)
            /\ \A i \in 1..Len(columns) :
                 LET p == profile.column_profiles[i] IN
                   /\ p.name = columns[i]
                   /\ p.min = C13_Own(columns[i], "min")
                   /\ p.max = C13_Own(columns[i], "max")
                   /\ p.avg_len = C13_Own(columns[i], "avgLen")
                   /\ p.max_len = C13_Own(columns[i], "maxLen")
                   /\ p.version = C13_Own(columns[i], "version")
                   /\ C13_Own(columns[i], "nullCount") = None => p.null_count = None
                   /\ C13_Own(columns[i], "nullCount") = Some(<< "1" >>)
                        => p.null_count = Some(1)
                   /\ C13_Own(columns[i], "distinctCount") = None
                        => p.distinct_count = None
                   /\ C13_Own(columns[i], "distinctCount") = Some(<< "7" >>)
                        => p.distinct_count = Some(7)
       /\ ~Frame.include_columns => profile.column_profiles = << >>
       /\ Len(frames) = 2 => profile.column_profiles = << >>

\* C13 witness: the retry without columns returned a profile of a table that
\* declares two columns: num_columns is 2 and there is no column profile.
C13_Witness ==
  /\ pc = "returned"
  /\ retval # None
  /\ Len(frames) = 2
  /\ Len(table_info.columns) = 2
  /\ retval[1].num_columns = 2
  /\ retval[1].column_profiles = << >>

\* C14: a submission that answers FAILED, CANCELED or CLOSED raises in
\* _analyze_table with context "analyze-table": the poller of that attempt
\* never runs (no sleep, no status fetch), and get_table_stats records the
\* failure as an error, never as a timeout.
C14_FailedSubmissionRaises ==
  \A i \in At("execute_statement") :
    log[i].state \in TerminalFailure =>
      LET f == log[i].frame IN
        /\ log[i].ctx = "analyze-table"
        /\ Polling(f) = {}
        /\ IF i = Len(log)
           THEN /\ pc = "raised"
                /\ exc = DatabricksError(log[i].msg, "analyze-table")
                /\ success = None
           ELSE /\ log[i + 1].op = "catch"
                /\ log[i + 1].frame = f
                /\ log[i + 1].ctx = "analyze-table"
                /\ log[i + 1].msg = log[i].msg
                /\ BaseMsg(log[i].msg) \in DOMAIN report.profile_table_errors
                /\ \E j \in DOMAIN report.profile_table_errors[BaseMsg(log[i].msg)] :
                     report.profile_table_errors[BaseMsg(log[i].msg)][j]
                       = << StrRef(frames[f].ref), log[i].msg >>
                /\ (f = Len(frames) /\ pc = "returned") =>
                     /\ retval = None
                     /\ report.profile_table_timeouts = report0.profile_table_timeouts

\* C14 witness: the submission answered CANCELED, the call returned None
\* with one more error recorded and no timeout.
C14_Witness ==
  /\ pc = "returned"
  /\ retval = None
  /\ Len(log) = 2
  /\ log[1].op = "execute_statement"
  /\ log[1].state = "CANCELED"
  /\ log[2].op = "catch"
  /\ Samples(report.profile_table_errors, DOMAIN report.profile_table_errors)
       = Samples(report0.profile_table_errors, DOMAIN report0.profile_table_errors) + 1
  /\ report.profile_table_timeouts = report0.profile_table_timeouts

RECURSIVE Pow2(_)
Pow2(n) == IF n = 0 THEN 1 ELSE 2 * Pow2(n - 1)
\* the least k with 2^k >= n, for n >= 1: the ceiling of log2(n)
CeilLog2(n) == CHOOSE k \in 0..n : Pow2(k) >= n /\ \A j \in 0..(k - 1) : Pow2(j) < n
\* position in the history of the sleep of the j-th loop iteration
SleepAt(j) == 2 * j - 1
\* loop iterations the poller has run
Iterations == Cardinality(At("sleep"))

\* C15: the k-th loop iteration of the poller is scheduled with a backoff of
\* 2^(k-1) seconds and sleeps no longer than that nor than what is left of
\* max_wait_secs; whatever statuses are polled the loop runs at most
\* ceil(log2(max_wait_secs + 1)) + 1 times.
C15_BackoffDoubles ==
  /\ backoff_sec = Pow2(Iterations)
  /\ total_wait_time = Pow2(Iterations) - 1
  /\ Iterations <= CeilLog2(max_wait_secs + 1) + 1
  /\ \A j \in 1..Iterations :
       /\ log[SleepAt(j)].op = "sleep"
       /\ log[SleepAt(j)].dur <= Pow2(j - 1)
       /\ log[SleepAt(j)].dur <= max_wait_secs - (Pow2(j - 1) - 1)

\* C15 witness: with max_wait_secs = 8 the poller timed out after four
\* iterations, the last one scheduled with 8 seconds and cut to the one
\* second left.
C15_Witness ==
  /\ pc = "polled"
  /\ max_wait_secs = 8
  /\ Iterations = 4
  /\ Iterations = CeilLog2(max_wait_secs + 1)
  /\ backoff_sec = 16
  /\ log[SleepAt(4)].dur = 1
  /\ success = Some(FALSE)

RECURSIVE SumSleeps(_)
\* the seconds slept by the first n loop iterations
SumSleeps(n) == IF n = 0 THEN 0 ELSE log[SleepAt(n)].dur + SumSleeps(n - 1)
Min(a, b) == IF a <= b THEN a ELSE b

\* C16: every sleep of the poller lasts min(backoff, max_wait_secs - elapsed)
\* seconds, elapsed being the backoff scheduled so far, and is strictly
\* positive; the sleeps of one poller run add up to at most max_wait_secs.
C16_SleepWithinBudget ==
  /\ \A j \in 1..Iterations :
       LET backoff == Pow2(j - 1)
           elapsed == Pow2(j - 1) - 1
       IN /\ log[SleepAt(j)].op = "sleep"
          /\ log[SleepAt(j)].dur = Min(backoff, max_wait_secs - elapsed)
          /\ log[SleepAt(j)].dur > 0
  /\ SumSleeps(Iterations) <= max_wait_secs

\* C16 witness: with max_wait_secs = 5 the poller slept 1, 2 and 2 seconds,
\* five in all, while the scheduled backoff added up to seven.
C16_Witness ==
  /\ pc = "polled"
  /\ max_wait_secs = 5
  /\ Iterations = 3
  /\ log[SleepAt(1)].dur = 1
  /\ log[SleepAt(2)].dur = 2
  /\ log[SleepAt(3)].dur = 2
  /\ SumSleeps(3) = 5
  /\ total_wait_time = 7

\* C19: when the poller returns false its sleeps add up to exactly
\* max_wait_secs; it has fetched the status once per sleep, each fetch right
\* after its sleep.
C19_TimeoutSleepsWholeBudget ==
  /\ Len(log) = 2 * Iterations
  /\ \A j \in 1..Iterations :
       /\ log[SleepAt(j)].op = "sleep"
       /\ log[SleepAt(j) + 1].op = "get_statement"
  /\ Cardinality(At("get_statement")) = Iterations
  /\ (pc = "polled" /\ success = Some(FALSE)) =>
       SumSleeps(Iterations) = max_wait_secs

\* C19 witness: with max_wait_secs = 7, a power-of-two boundary, the poller
\* timed out after sleeping 1, 2 and 4 seconds and fetching three times.
C19_Witness ==
  /\ pc = "polled"
  /\ success = Some(FALSE)
  /\ max_wait_secs = 7
  /\ Iterations = 3
  /\ log[SleepAt(3)].dur = 4
  /\ SumSleeps(3) = 7
  /\ Cardinality(At("get_statement")) = 3

Has(msg, ch) == \E i \in 1..Len(msg) : msg[i] = ch
\* key is the text of msg up to and including its first ch
UpToFirst(key, msg, ch) ==
  /\ Len(key) >= 1 /\ Len(key) <= Len(msg)
  /\ key = SubSeq(msg, 1, Len(key))
  /\ key[Len(key)] = ch
  /\ \A j \in 1..(Len(key) - 1) : key[j] # ch

\* C17: the grouping key of a recorded error is its message up to and
\* including the first backtick; without a backtick, up to and including
\* the first single quote; without either, the whole message.  A quote
\* before the backtick does not shorten the key, and a message that begins
\* with its delimiter has that one character as key.
C17_GroupingKey ==
  pc = "returned" =>
    LET msg == log[1].msg
        errors == report.profile_table_errors
    IN /\ Cardinality(DOMAIN errors) = 1
       /\ \A key \in DOMAIN errors :
            /\ errors[key] = << << StrRef(Frame.ref), msg >> >>
            /\ Has(msg, Backtick) => UpToFirst(key, msg, Backtick)
            /\ (~Has(msg, Backtick) /\ Has(msg, SingleQuote))
                 => UpToFirst(key, msg, SingleQuote)
            /\ (~Has(msg, Backtick) /\ ~Has(msg, SingleQuote)) => key = msg
            /\ (msg # << >> /\ msg[1] = Backtick) => key = << Backtick >>
            /\ (msg # << >> /\ msg[1] = SingleQuote /\ ~Has(msg, Backtick))
                 => key = << SingleQuote >>

\* C17 witness: in a message whose single quote comes before its backtick
\* the key runs up to the backtick.
C17_Witness ==
  /\ pc = "returned"
  /\ log[1].msg = << SingleQuote, "a", Backtick >>
  /\ DOMAIN report.profile_table_errors = { << SingleQuote, "a", Backtick >> }

\* positions of the history where an error bearing the unsupported-column
\* token was caught
TokenCaught == { i \in At("catch") : Has(log[i].msg, UnsupportedToken) }
\* the attempt that caught at position i ran ANALYZE with columns
Narrowable(i) ==
  frames[log[i].frame].call_analyze /\ frames[log[i].frame].include_columns

\* C18: during every call num_profile_failed_unsupported_column_type grows
\* by the number of retries without columns the call has made: by one when a
\* token error is caught by an attempt with call_analyze and include_columns,
\* and the retry follows; not at all when the token error is caught with one
\* of the flags false, as in the retry itself.
C18_CounterEqualsRetries ==
  frames # << >> =>
    /\ report.num_profile_failed_unsupported_column_type
         - report0.num_profile_failed_unsupported_column_type = Len(frames) - 1
    /\ Cardinality({ i \in TokenCaught : Narrowable(i) }) = Len(frames) - 1
    /\ \A i \in TokenCaught :
         IF Narrowable(i)
         THEN /\ log[i].frame = 1
              /\ Len(frames) = 2
              /\ ~frames[2].include_columns
         ELSE /\ log[i].frame = Len(frames)
              /\ i = Len(log)
              /\ pc = "returned"

\* C18 witness: the retry without columns failed with the token error as
\* well: two token errors caught, one retry, the counter one higher.
C18_Witness ==
  /\ pc = "returned"
  /\ Len(frames) = 2
  /\ Cardinality(TokenCaught) = 2
  /\ report.num_profile_failed_unsupported_column_type
       = report0.num_profile_failed_unsupported_column_type + 1
  /\ report0.num_profile_failed_unsupported_column_type = 1

RECURSIVE SumOver(_, _)
\* the sum of a history counter over a set of workers
SumOver(field, ws) ==
  IF ws = {} THEN 0
  ELSE LET w == CHOOSE w \in ws : TRUE
       IN workers[w][field] + SumOver(field, ws \ { w })
\* how many times the sequence s holds x
Count(s, x) == Cardinality({ i \in 1..Len(s) : s[i] = x })
AllDone == \A w \in Workers : workers[w].pc = "done"

\* C20: once every worker has finished its call the shared report has lost
\* no update: num_profile_failed_unsupported_column_type is the number of
\* retries of all workers, num_profile_failed_int_casts the number of failed
\* casts of all workers, and every error a worker recorded is in the list
\* of its grouping key.
C20_NoLostUpdate ==
  AllDone =>
    /\ report.num_profile_failed_unsupported_column_type
         = SumOver("retries", Workers)
    /\ report.num_profile_failed_int_casts = SumOver("failures", Workers)
    /\ \A w \in Workers : \A m \in ErrMessages :
         Count(workers[w].recorded, m) > 0 =>
           /\ BaseMsg(m) \in DOMAIN report.profile_table_errors
           /\ Count(report.profile_table_errors[BaseMsg(m)],
                    << StrRef(TableRef(w)), m >>)
                = Count(workers[w].recorded, m)

====
